---- MODULE Spec2Model ----
(***************************************************************************)
(* Model of jira_report.py: one run of run_report(), i.e. fetch (two HTTP  *)
(* GETs), render (build_html_report) and send (one SMTP session).  The     *)
(* tracking service and the mail server are the environment: every reply   *)
(* they can give is a nondeterministic choice.  requests and smtplib are   *)
(* modelled at the granularity of the calls the script makes, each call    *)
(* either returning or raising as the library does.                        *)
(*                                                                         *)
(* Not modelled: the summary and updated cells, the generation date and    *)
(* the literal HTML markup; a rendered row is the tuple of the cells the   *)
(* properties below speak about.                                           *)
(***************************************************************************)
EXTENDS Integers, Sequences, FiniteSets, TLC

VARIABLES pc, calls, console, exc,
          lookupResp, searchResp, searchParams,
          jql, filter_name, issues, total, html,
          session, starttlsOffered, tls, authed, faults, submitted

vars == <<pc, calls, console, exc, lookupResp, searchResp, searchParams,
          jql, filter_name, issues, total, html,
          session, starttlsOffered, tls, authed, faults, submitted>>

fetchVars == <<lookupResp, searchResp, searchParams, jql, filter_name, issues, total>>
smtpVars  == <<session, starttlsOffered, tls, authed, faults, submitted>>

-----------------------------------------------------------------------------
(* Bounds of the environment *)

MaxIssues == 2
MaxTotal == 3

(* Configuration *)

SENDER_EMAIL == "reports@x.com"
RECIPIENT_EMAILS == <<"a@x.com", "b@y.com">>
maxResults == 100

Range(s) == {s[i] : i \in 1..Len(s)}
Count(s, e) == Cardinality({i \in 1..Len(s) : s[i] = e})

-----------------------------------------------------------------------------
(* JSON values of an issue's fields.  A field of the "fields" object is    *)
(* absent, null, or an object holding at most the one string the renderer  *)
(* reads from it (name / displayName).                                     *)

Absent   == [kind |-> "absent", has |-> FALSE, val |-> ""]
Null     == [kind |-> "null",   has |-> FALSE, val |-> ""]
EmptyObj == [kind |-> "obj",    has |-> FALSE, val |-> ""]
Obj(v)   == [kind |-> "obj",    has |-> TRUE,  val |-> v]

Issue(k, s, a, p) == [key |-> k, fields |-> [status |-> s, assignee |-> a, priority |-> p]]

KnownStatuses == {"To Do", "In Progress", "Done", "Blocked", "In Review"}

IssueSet ==
  { Issue("PRJ-1", Obj("To Do"),       Obj("Alice"), Obj("High")),
    Issue("PRJ-2", Obj("In Progress"), Null,         Absent),
    Issue("PRJ-3", Obj("Done"),        Absent,       Null),
    Issue("PRJ-1", Obj("Blocked"),     EmptyObj,     EmptyObj),
    Issue("PRJ-2", Obj("In Review"),   Obj("Bob"),   Null),
    Issue("PRJ-3", Obj("Won't Fix"),   Null,         Obj("Low")),
    Issue("PRJ-1", Absent,             Absent,       Absent),
    Issue("PRJ-2", EmptyObj,           Obj("Alice"), EmptyObj),
    Issue("PRJ-3", Null,               Obj("Bob"),   Obj("High")) }

IssueLists == UNION { [1..n -> IssueSet] : n \in 0..MaxIssues }

-----------------------------------------------------------------------------
(* HTTP replies *)

StatusCodes == {200, 304, 404, 500}

NoResp == [status |-> 0, json |-> FALSE]

FilterBodies ==
  { [json |-> FALSE, hasJql |-> FALSE, jql |-> "",            hasName |-> FALSE, name |-> ""],
    [json |-> TRUE,  hasJql |-> TRUE,  jql |-> "project = X", hasName |-> TRUE,  name |-> "Sprint Board"],
    [json |-> TRUE,  hasJql |-> FALSE, jql |-> "",            hasName |-> FALSE, name |-> ""] }

NoSearchBody == [json |-> FALSE, hasIssues |-> FALSE, issues |-> <<>>, hasTotal |-> FALSE, total |-> 0]

SearchBodies ==
  { NoSearchBody }
  \cup { [json |-> TRUE, hasIssues |-> TRUE, issues |-> l, hasTotal |-> TRUE, total |-> t] :
           l \in IssueLists, t \in 0..MaxTotal }
  \cup { [json |-> TRUE, hasIssues |-> FALSE, issues |-> <<>>, hasTotal |-> FALSE, total |-> 0] }

(* Response.raise_for_status(): raises HTTPError for 4xx and 5xx only *)
RaisesForStatus_ClientOnly(status) == 400 <= status /\ status < 500
RaisesForStatus(status) == 400 <= status /\ status < 600

Line(m, t, n) == [msg |-> m, total |-> t, name |-> n]

-----------------------------------------------------------------------------
NoHtml == [built |-> FALSE, filter_name |-> "", total |-> 0, rows |-> <<>>, noIssuesMsg |-> FALSE]

Init ==
  /\ pc = "start"
  /\ calls = <<>>
  /\ console = <<>>
  /\ exc = "none"
  /\ lookupResp = NoResp
  /\ searchResp = [status |-> 0, body |-> NoSearchBody]
  /\ searchParams = [jql |-> "", maxResults |-> 0]
  /\ jql = ""
  /\ filter_name = ""
  /\ issues = <<>>
  /\ total = 0
  /\ html = NoHtml
  /\ session = "none"
  /\ starttlsOffered = FALSE
  /\ tls = FALSE
  /\ authed = FALSE
  /\ faults = {}
  /\ submitted = <<>>

(* run_report, first line *)
Start ==
  /\ pc = "start"
  /\ console' = Append(console, Line("fetching", 0, ""))
  /\ pc' = "lookup"
  /\ UNCHANGED <<calls, exc, fetchVars, html, smtpVars>>

(* fetch_jira_issues, the filter lookup *)
FilterLookup ==
  /\ pc = "lookup"
  /\ \E status \in StatusCodes, body \in FilterBodies :
       /\ calls' = Append(calls, "GET filter")
       /\ lookupResp' = [status |-> status, json |-> body.json]
       /\ IF RaisesForStatus(status)
            THEN /\ exc' = "HTTPError"
                 /\ pc' = "failed"
                 /\ UNCHANGED <<jql, filter_name>>
            ELSE IF ~body.json
              THEN /\ exc' = "JSONDecodeError"
                   /\ pc' = "failed"
                   /\ UNCHANGED <<jql, filter_name>>
              ELSE /\ jql' = IF body.hasJql THEN body.jql ELSE ""
                   /\ filter_name' = IF body.hasName THEN body.name ELSE "Jira Filter"
                   /\ pc' = "search"
                   /\ UNCHANGED exc
  /\ UNCHANGED <<console, searchResp, searchParams, issues, total, html, smtpVars>>

(* fetch_jira_issues, the search; data.get("issues", []), data.get("total", 0) *)
SearchIssues(body) == IF body.hasIssues THEN body.issues ELSE <<>>

SearchTotal_PageSize(body) == Len(SearchIssues(body))
SearchTotal(body) == IF body.hasTotal THEN body.total ELSE 0

Search ==
  /\ pc = "search"
  /\ \E status \in StatusCodes, body \in SearchBodies :
       /\ calls' = Append(calls, "GET search")
       /\ searchParams' = [jql |-> jql, maxResults |-> maxResults]
       /\ searchResp' = [status |-> status, body |-> body]
       /\ IF RaisesForStatus(status)
            THEN /\ exc' = "HTTPError"
                 /\ pc' = "failed"
                 /\ UNCHANGED <<issues, total>>
            ELSE IF ~body.json
              THEN /\ exc' = "JSONDecodeError"
                   /\ pc' = "failed"
                   /\ UNCHANGED <<issues, total>>
              ELSE /\ issues' = SearchIssues(body)
                   /\ total' = SearchTotal(body)
                   /\ pc' = "render"
                   /\ UNCHANGED exc
  /\ UNCHANGED <<console, lookupResp, jql, filter_name, html, smtpVars>>

-----------------------------------------------------------------------------
(* build_html_report *)

(* d.get(k, default) on a field of "fields" *)
FieldGet(fields, k, default) == IF fields[k].kind = "absent" THEN default ELSE fields[k]

(* v or {} *)
OrEmpty(v) == IF v.kind = "null" \/ ~v.has THEN EmptyObj ELSE v

(* v.get(name, default) where v is an object; None has no get *)
ObjGet(v, default) ==
  IF v.kind = "null" THEN [err |-> TRUE, val |-> ""]
  ELSE [err |-> FALSE, val |-> IF v.has THEN v.val ELSE default]

StatusName(fields) == ObjGet(FieldGet(fields, "status", EmptyObj), "N/A")

AssigneeCell_WrongDefault(fields) == ObjGet(OrEmpty(FieldGet(fields, "assignee", Null)), "N/A")
AssigneeCell(fields) == ObjGet(OrEmpty(FieldGet(fields, "assignee", Null)), "Unassigned")

PriorityCell(fields) == ObjGet(OrEmpty(FieldGet(fields, "priority", Null)), "N/A")

DefaultColor == "#6b7280"

status_colors ==
  [s \in KnownStatuses |->
     CASE s = "To Do"       -> "#6b7280"
       [] s = "In Progress" -> "#2563eb"
       [] s = "Done"        -> "#16a34a"
       [] s = "Blocked"     -> "#dc2626"
       [] s = "In Review"   -> "#d97706"]

StatusColor_BlueDefault(status) == IF status \in DOMAIN status_colors THEN status_colors[status] ELSE "#2563eb"
StatusColor(status) == IF status \in DOMAIN status_colors THEN status_colors[status] ELSE DefaultColor

(* one iteration of the loop over issues *)
RenderRow(issue) ==
  LET st == StatusName(issue.fields)
      as == AssigneeCell(issue.fields)
      pr == PriorityCell(issue.fields)
  IN [err          |-> st.err \/ as.err \/ pr.err,
      key          |-> issue.key,
      status       |-> st.val,
      status_color |-> StatusColor(st.val),
      assignee     |-> as.val,
      priority     |-> pr.val]

RECURSIVE BuildRows_Reversed(_)
BuildRows_Reversed(iss) ==
  IF iss = <<>> THEN [err |-> FALSE, rows |-> <<>>]
  ELSE LET r == RenderRow(Head(iss))
           rest == BuildRows_Reversed(Tail(iss))
       IN [err |-> r.err \/ rest.err, rows |-> Append(rest.rows, r)]

(* rows = ""; for issue in issues: rows += ... *)
RECURSIVE BuildRows(_)
BuildRows(iss) ==
  IF iss = <<>> THEN [err |-> FALSE, rows |-> <<>>]
  ELSE LET r == RenderRow(Head(iss))
       IN IF r.err THEN [err |-> TRUE, rows |-> <<>>]
          ELSE LET rest == BuildRows(Tail(iss))
               IN [err |-> rest.err, rows |-> IF rest.err THEN <<>> ELSE <<r>> \o rest.rows]

(* the "No issues found in this filter." paragraph: ... if not issues else "" *)
NoIssuesMessage_ByTotal(iss, tot) == tot = 0
NoIssuesMessage(iss, tot) == iss = <<>>

(* run_report: print the count, build the report, print "Sending email..." *)
Render ==
  /\ pc = "render"
  /\ LET built == BuildRows(issues)
         found == Append(console, Line("found", total, filter_name))
     IN IF built.err
          THEN /\ console' = found
               /\ exc' = "AttributeError"
               /\ pc' = "failed"
               /\ UNCHANGED html
          ELSE /\ html' = [built |-> TRUE, filter_name |-> filter_name, total |-> total,
                           rows |-> built.rows, noIssuesMsg |-> NoIssuesMessage(issues, total)]
               /\ console' = Append(found, Line("sending", 0, ""))
               /\ pc' = "connect"
               /\ UNCHANGED exc
  /\ UNCHANGED <<calls, fetchVars, smtpVars>>

-----------------------------------------------------------------------------
(* send_email: with smtplib.SMTP(host, 587) as server: ... *)

Raise(e, f) ==
  /\ exc' = e
  /\ faults' = faults \cup {f}
  /\ pc' = "exit"

(* smtplib.SMTP(host, port): connects; on failure nothing is bound and the
   constructor has released its socket *)
Connect ==
  /\ pc = "connect"
  /\ calls' = Append(calls, "connect")
  /\ \E ok \in BOOLEAN :
       IF ok
         THEN /\ session' = "open"
              /\ pc' = "ehlo"
              /\ UNCHANGED <<exc, faults>>
         ELSE /\ exc' = "SMTPConnectError"
              /\ faults' = faults \cup {"connect"}
              /\ pc' = "failed"
              /\ UNCHANGED session
  /\ UNCHANGED <<console, fetchVars, html, starttlsOffered, tls, authed, submitted>>

(* server.ehlo(): a reply other than 250 is returned, not raised; a dropped
   connection closes the socket and raises *)
Ehlo ==
  /\ pc = "ehlo"
  /\ calls' = Append(calls, "ehlo")
  /\ \E r \in {"250 STARTTLS", "250", "rejected", "disconnected"} :
       CASE r = "250 STARTTLS" ->
              /\ starttlsOffered' = TRUE
              /\ pc' = "starttls"
              /\ UNCHANGED <<exc, faults, session>>
         [] r = "250" ->
              /\ pc' = "starttls"
              /\ UNCHANGED <<exc, faults, session, starttlsOffered>>
         [] r = "rejected" ->
              /\ faults' = faults \cup {"ehlo"}
              /\ pc' = "starttls"
              /\ UNCHANGED <<exc, session, starttlsOffered>>
         [] r = "disconnected" ->
              /\ Raise("SMTPServerDisconnected", "ehlo")
              /\ session' = "closed"
              /\ UNCHANGED starttlsOffered
  /\ UNCHANGED <<console, fetchVars, html, tls, authed, submitted>>

Starttls_ReturnsReply ==
  /\ pc = "starttls"
  /\ calls' = Append(calls, "starttls")
  /\ IF ~starttlsOffered
       THEN /\ Raise("SMTPNotSupportedError", "starttls")
            /\ UNCHANGED <<tls, starttlsOffered>>
       ELSE \E r \in {"220", "refused"} :
              IF r = "220"
                THEN /\ tls' = TRUE
                     /\ starttlsOffered' = FALSE
                     /\ pc' = "login"
                     /\ UNCHANGED <<exc, faults>>
                ELSE /\ faults' = faults \cup {"starttls"}
                     /\ pc' = "login"
                     /\ UNCHANGED <<exc, tls, starttlsOffered>>
  /\ UNCHANGED <<console, fetchVars, html, session, authed, submitted>>

(* server.starttls(): raises unless the extension was offered and the server
   answers 220; on success the session is encrypted and the EHLO state reset *)
Starttls ==
  /\ pc = "starttls"
  /\ calls' = Append(calls, "starttls")
  /\ IF ~starttlsOffered
       THEN /\ Raise("SMTPNotSupportedError", "starttls")
            /\ UNCHANGED <<tls, starttlsOffered>>
       ELSE \E r \in {"220", "refused"} :
              IF r = "220"
                THEN /\ tls' = TRUE
                     /\ starttlsOffered' = FALSE
                     /\ pc' = "login"
                     /\ UNCHANGED <<exc, faults>>
                ELSE /\ Raise("SMTPResponseException", "starttls")
                     /\ UNCHANGED <<tls, starttlsOffered>>
  /\ UNCHANGED <<console, fetchVars, html, session, authed, submitted>>

(* server.login(SENDER_EMAIL, SENDER_PASSWORD) *)
Login ==
  /\ pc = "login"
  /\ calls' = Append(calls, "login")
  /\ \E r \in {"235", "rejected"} :
       IF r = "235"
         THEN /\ authed' = TRUE
              /\ pc' = "sendmail"
              /\ UNCHANGED <<exc, faults>>
         ELSE /\ Raise("SMTPAuthenticationError", "login")
              /\ UNCHANGED authed
  /\ UNCHANGED <<console, fetchVars, html, session, starttlsOffered, tls, submitted>>

Envelope(accepted) == [from |-> SENDER_EMAIL, to |-> RECIPIENT_EMAILS, accepted |-> accepted]

(* server.sendmail(SENDER_EMAIL, RECIPIENT_EMAILS, msg): MAIL, one RCPT per
   recipient, DATA.  It raises when the sender, every recipient or the data
   is refused; when only some recipients are refused it returns them, and
   the script drops the return value *)
Sendmail ==
  /\ pc = "sendmail"
  /\ calls' = Append(calls, "sendmail")
  /\ \E mailOk \in BOOLEAN, refused \in SUBSET Range(RECIPIENT_EMAILS), dataOk \in BOOLEAN :
       IF ~mailOk
         THEN /\ Raise("SMTPSenderRefused", "sender")
              /\ UNCHANGED submitted
         ELSE IF refused = Range(RECIPIENT_EMAILS)
           THEN /\ exc' = "SMTPRecipientsRefused"
                /\ faults' = faults \cup {"rcpt"}
                /\ pc' = "exit"
                /\ UNCHANGED submitted
           ELSE IF ~dataOk
             THEN /\ exc' = "SMTPDataError"
                  /\ faults' = faults \cup (IF refused = {} THEN {"data"} ELSE {"rcpt", "data"})
                  /\ pc' = "exit"
                  /\ UNCHANGED submitted
             ELSE /\ submitted' = Append(submitted, Envelope(Range(RECIPIENT_EMAILS) \ refused))
                  /\ faults' = faults \cup (IF refused = {} THEN {} ELSE {"rcpt"})
                  /\ pc' = "exit"
                  /\ UNCHANGED exc
  /\ UNCHANGED <<console, fetchVars, html, session, starttlsOffered, tls, authed>>

WithExit_LeaksOnError ==
  /\ pc = "exit"
  /\ IF exc # "none"
       THEN /\ pc' = "failed"
            /\ UNCHANGED <<calls, session, exc, faults, console>>
       ELSE /\ calls' = Append(calls, "quit")
            /\ session' = "closed"
            /\ console' = Append(console, Line("sent", 0, ""))
            /\ pc' = "done"
            /\ UNCHANGED <<exc, faults>>
  /\ UNCHANGED <<fetchVars, html, starttlsOffered, tls, authed, submitted>>

(* leaving the with block: SMTP.__exit__ sends QUIT (raising on a reply other
   than 221, ignoring a dropped connection) and closes the socket in any
   case; then either the pending exception propagates or send_email prints
   its confirmation *)
WithExit ==
  /\ pc = "exit"
  /\ \E q \in {"221", "other", "disconnected"} :
       /\ IF session = "open"
            THEN /\ calls' = Append(calls, "quit")
                 /\ exc' = IF q = "other" THEN "SMTPResponseException" ELSE exc
                 /\ faults' = IF q = "other" THEN faults \cup {"quit"} ELSE faults
            ELSE UNCHANGED <<calls, exc, faults>>
       /\ session' = "closed"
       /\ IF exc' = "none"
            THEN /\ console' = Append(console, Line("sent", 0, ""))
                 /\ pc' = "done"
            ELSE /\ pc' = "failed"
                 /\ UNCHANGED console
  /\ UNCHANGED <<fetchVars, html, starttlsOffered, tls, authed, submitted>>

-----------------------------------------------------------------------------
Next ==
  \/ Start
  \/ FilterLookup
  \/ Search
  \/ Render
  \/ Connect
  \/ Ehlo
  \/ Starttls
  \/ Login
  \/ Sendmail
  \/ WithExit

Spec == Init /\ [][Next]_vars

TypeOK ==
  /\ pc \in {"start", "lookup", "search", "render", "connect", "ehlo", "starttls",
             "login", "sendmail", "exit", "done", "failed"}
  /\ session \in {"none", "open", "closed"}
  /\ Len(issues) <= MaxIssues
  /\ total \in 0..MaxTotal

-----------------------------------------------------------------------------
(* Vocabulary of the properties *)

Called(c) == Count(calls, c) > 0
Printed(m) == \E i \in 1..Len(console) : console[i].msg = m

SmtpCallNames == {"connect", "ehlo", "starttls", "login", "sendmail", "quit"}
IsSmtpCall(c) == c \in SmtpCallNames
SmtpCalls == SelectSeq(calls, IsSmtpCall)

MailTouched == session # "none" \/ SmtpCalls # <<>> \/ Printed("sending") \/ Printed("sent")

HttpFailure(status, json) == status >= 400 \/ ~json
LookupFailed == Called("GET filter") /\ HttpFailure(lookupResp.status, lookupResp.json)
SearchFailed == Called("GET search") /\ HttpFailure(searchResp.status, searchResp.body.json)
LookupSucceeded == Called("GET filter") /\ ~LookupFailed
SearchSucceeded == Called("GET search") /\ ~SearchFailed

(* C1: a search call occurs only after a filter-lookup call that returned a
   2xx status; a non-2xx lookup reply aborts the run before the search. *)
C1_SearchOnlyAfter2xxLookup ==
  Called("GET search") => (lookupResp.status >= 200 /\ lookupResp.status <= 299)

(* C2: fetch, then render, then send, with no partial success: the mail
   session is opened (and the sending and confirmation lines printed) only
   when both HTTP calls succeeded and the report was rendered; when an HTTP
   call fails (error status, or a reply that cannot be read) the run has
   terminated without ever touching the mail server. *)
C2_FetchRenderSend ==
  /\ MailTouched => LookupSucceeded /\ SearchSucceeded /\ html.built
  /\ html.built => SearchSucceeded
  /\ Called("GET search") => LookupSucceeded
  /\ Len(calls) >= 1 => calls[1] = "GET filter"
  /\ Len(calls) >= 2 => calls[2] = "GET search"
  /\ \A i \in 3..Len(calls) : IsSmtpCall(calls[i])
  /\ (LookupFailed \/ SearchFailed) => pc = "failed" /\ ~MailTouched

C2_Witness ==
  /\ pc = "failed"
  /\ calls = <<"GET filter", "GET search">>
  /\ searchResp.status = 500
  /\ searchResp.body.json
  /\ ~MailTouched

SubmissionFaults == {"connect", "ehlo", "starttls", "login", "sender", "rcpt", "data"}

(* C3: a failure during handshake, authentication or submission, the
   rejection of a recipient included, aborts the run; connect, login and
   sendmail are attempted at most once, and the confirmation is printed only
   in runs where no such failure occurred. *)
C3_FailureAbortsNoRetry ==
  /\ Count(calls, "connect") <= 1
  /\ Count(calls, "login") <= 1
  /\ Count(calls, "sendmail") <= 1
  /\ (Printed("sent") \/ pc = "done") => faults \cap SubmissionFaults = {}

(* C4: in every terminal state of a run, successful or failed, no mail
   session that was opened remains open. *)
C4_SessionClosedAtExit ==
  pc \in {"done", "failed"} => session # "open"

C4_Witness ==
  /\ pc = "failed"
  /\ exc = "SMTPAuthenticationError"
  /\ Called("login")
  /\ session = "closed"

(* C5: the rendered report has one row per issue, and the i-th row carries
   the key of the i-th issue. *)
C5_RowPerIssueInOrder ==
  html.built =>
    /\ Len(html.rows) = Len(issues)
    /\ \A i \in 1..Len(issues) : html.rows[i].key = issues[i].key

C5_Witness ==
  /\ html.built
  /\ Len(issues) = 2
  /\ issues[1].key # issues[2].key
  /\ html.rows[1].key = issues[1].key

(* C6: the "No issues found" message is emitted exactly when the issue
   sequence is empty, then with zero rows, whatever the total. *)
C6_NoIssuesMessageIffEmpty ==
  html.built =>
    /\ html.noIssuesMsg <=> (issues = <<>>)
    /\ html.noIssuesMsg => html.rows = <<>>

C6_Witness ==
  /\ html.built
  /\ issues = <<>>
  /\ total > 0
  /\ html.noIssuesMsg

Missing(v) == v.kind \in {"absent", "null"}
Named(v) == v.kind = "obj" /\ v.has

(* C7: a missing assignee (absent or null) renders as "Unassigned", a
   missing priority as "N/A"; a present one renders as its display name /
   name. *)
C7_MissingAssigneePriority ==
  html.built =>
    \A i \in 1..Len(issues) :
      LET f == issues[i].fields
          row == html.rows[i]
      IN /\ Missing(f.assignee) => row.assignee = "Unassigned"
         /\ Missing(f.priority) => row.priority = "N/A"
         /\ Named(f.assignee) => row.assignee = f.assignee.val
         /\ Named(f.priority) => row.priority = f.priority.val

C7_Witness ==
  /\ html.built
  /\ \E i \in 1..Len(issues) :
       /\ issues[i].fields.assignee = Null
       /\ issues[i].fields.priority = Absent
       /\ html.rows[i].assignee = "Unassigned"

(* C8: rendering succeeds for every status name: a name of the table gets
   its table color, any other status (an absent one included) gets the
   default #6b7280, and its row is present. *)
C8_StatusColorFallback ==
  /\ (Printed("found") /\ \A i \in 1..Len(issues) : issues[i].fields.status.kind # "null")
        => html.built /\ Len(html.rows) = Len(issues)
  /\ html.built =>
       \A i \in 1..Len(html.rows) :
         LET st == issues[i].fields.status
             row == html.rows[i]
             is(n) == Named(st) /\ st.val = n
         IN /\ is("To Do")       => row.status_color = "#6b7280"
            /\ is("In Progress") => row.status_color = "#2563eb"
            /\ is("Done")        => row.status_color = "#16a34a"
            /\ is("Blocked")     => row.status_color = "#dc2626"
            /\ is("In Review")   => row.status_color = "#d97706"
            /\ ~(Named(st) /\ st.val \in KnownStatuses) => row.status_color = "#6b7280"
            /\ row.key = issues[i].key

C8_Witness ==
  /\ html.built
  /\ \E i, j \in 1..Len(issues) :
       /\ issues[i].fields.status = Obj("Won't Fix")
       /\ html.rows[i].status_color = "#6b7280"
       /\ issues[j].fields.status = Absent

(* C9: the total of the header and of the console line is the match count
   of the search reply, also when it differs from the number of issues
   returned; one search call per run; an empty result keeps the reply's
   total. *)
C9_TotalPassedThrough ==
  LET body == searchResp.body
      reported == IF body.hasTotal THEN body.total ELSE 0
  IN /\ Count(calls, "GET search") <= 1
     /\ html.built => Count(calls, "GET search") = 1 /\ html.total = reported
     /\ \A i \in 1..Len(console) : console[i].msg = "found" => console[i].total = reported
     /\ (Printed("found") /\ (~body.hasIssues \/ body.issues = <<>>))
          => issues = <<>> /\ total = reported

C9_Witness ==
  /\ html.built
  /\ html.total > Len(html.rows)
  /\ html.rows # <<>>
  /\ Printed("found")

SessionOrder == <<"connect", "ehlo", "starttls", "login", "sendmail">>

(* C10: within the one mail session the steps come in the order ehlo,
   starttls, login, sendmail, close: no login before the upgrade succeeded,
   no submission before login succeeded, at most one session and one
   message, addressed to the whole recipient list. *)
C10_SessionStepOrder ==
  LET s == SmtpCalls
      steps == IF s # <<>> /\ s[Len(s)] = "quit" THEN SubSeq(s, 1, Len(s) - 1) ELSE s
  IN /\ Len(steps) <= Len(SessionOrder)
     /\ steps = SubSeq(SessionOrder, 1, Len(steps))
     /\ Called("login") => tls
     /\ Called("sendmail") => tls /\ authed
     /\ Count(calls, "connect") <= 1
     /\ Len(submitted) <= 1
     /\ \A i \in 1..Len(submitted) : submitted[i].to = RECIPIENT_EMAILS
     /\ submitted # <<>> => Called("sendmail")
     /\ pc = "done" => s = SessionOrder \o <<"quit">> /\ session = "closed"

C10_Witness ==
  /\ pc = "done"
  /\ Len(submitted) = 1
  /\ submitted[1].to = RECIPIENT_EMAILS
  /\ tls /\ authed

====
